---- MODULE Spec2Model ----
(***************************************************************************)
(* Chrome Tab Analyzer (streamlit_app.py).                                 *)
(*                                                                         *)
(* Three state machines over one set of variables:                         *)
(*   SpecScan    - fetch_all_chrome_urls: the sequential scan of the       *)
(*                 candidate debugging ports, one step per statement group *)
(*   SpecAnalyze - analyze_urls and the "Analyze Tabs" handler of main     *)
(*   SpecApp     - a session of main: Fetch Tabs, edits of the task,       *)
(*                 Analyze Tabs, and what the export then holds            *)
(* Strings are TLA+ strings; TLC treats them as sequences of characters,   *)
(* so Len, SubSeq and \o act on them as Python's len, slicing and +.       *)
(***************************************************************************)
EXTENDS Integers, Sequences, FiniteSets, TLC

(***************************************************************************)
(* Bounds of the explored environments.                                    *)
(***************************************************************************)
MaxSize == 6      \* size of a scan's environment: answering endpoints + contexts
                  \* + pages + injected failures (driver, enumeration, read, close)
MaxCalls == 2     \* analyses started in one behaviour
MaxAnalyzeTabs == 2  \* tabs handed to one analysis
MaxAppSize == 4      \* size of the environment of a scan started by main
MaxEvents == 3       \* presses and edits in one session of main

(***************************************************************************)
(* Program constants.                                                      *)
(***************************************************************************)
ports_to_check == <<9222, 9223, 9224, 9225, 9226>>

NPorts == Len(ports_to_check)

PortIdx == 1..NPorts

(***************************************************************************)
(* The pages a browser may hold: url, title, and whether page.title()      *)
(* returns (readable) or raises (the page went away mid-scan).             *)
(***************************************************************************)
PageUniverse ==
    { [url |-> "https://x.test/a",  title |-> "Docs",    readable |-> TRUE],
      [url |-> "https://x.test/b",  title |-> "",        readable |-> FALSE],
      [url |-> "about:blank",       title |-> "",        readable |-> TRUE],
      [url |-> "chrome://newtab/",  title |-> "New Tab", readable |-> TRUE],
      [url |-> "",                  title |-> "Docs",    readable |-> TRUE],
      [url |-> "chrome://settings", title |-> "Docs",    readable |-> TRUE] }

\* a page counts one, and one more when reading it fails
PageSize(g) == IF g.readable THEN 1 ELSE 2

RECURSIVE PageSeqs(_)
PageSeqs(w) ==
    {<<>>} \cup
    UNION { { <<g>> \o rest : rest \in PageSeqs(w - PageSize(g)) }
            : g \in { h \in PageUniverse : PageSize(h) <= w } }

RECURSIVE PagesSize(_)
PagesSize(ps) ==
    IF ps = <<>> THEN 0 ELSE PageSize(Head(ps)) + PagesSize(Tail(ps))

\* A context whose page enumeration raises is never read: its pages are left out.
\* The contexts of size at most w: one for the context, the size of its pages,
\* one for a failing enumeration.
CtxChoices(w) ==
    IF w < 1 THEN {}
    ELSE { [ok |-> TRUE, pages |-> p] : p \in PageSeqs(w - 1) }
           \cup (IF w >= 2 THEN { [ok |-> FALSE, pages |-> <<>>] } ELSE {})

CtxSize(x) == 1 + PagesSize(x.pages) + (IF x.ok THEN 0 ELSE 1)

RECURSIVE CtxLists(_)
CtxLists(w) ==
    {<<>>} \cup
    UNION { { <<x>> \o rest : rest \in CtxLists(w - CtxSize(x)) }
            : x \in CtxChoices(w) }

RECURSIVE CtxListSize(_)
CtxListSize(cs) ==
    IF cs = <<>> THEN 0 ELSE CtxSize(Head(cs)) + CtxListSize(Tail(cs))

\* What answers on a port: nothing (up = FALSE) or a browser with its contexts.
NoBrowser == [up |-> FALSE, contexts |-> <<>>, closeOk |-> TRUE]

BrowserSize(b) ==
    IF b.up THEN 1 + CtxListSize(b.contexts) + (IF b.closeOk THEN 0 ELSE 1)
    ELSE 0

\* the browsers of size at most w
BrowserChoices(w) ==
    IF w < 1 THEN {}
    ELSE { b \in { [up |-> TRUE, contexts |-> cs, closeOk |-> k] :
                     cs \in CtxLists(w - 1), k \in BOOLEAN } :
           BrowserSize(b) <= w }

NoRet == [kind |-> "none", value |-> <<>>]

VARIABLES
    scan_pc,          \* position inside fetch_all_chrome_urls
    playwright,       \* the driver: "none", "started", "stopped"
    port_i,           \* index into ports_to_check of the for loop (line 63)
    ctx_idx,          \* 0-based index of the context loop (line 72)
    page_idx,         \* 0-based index of the page loop (line 76)
    pages,            \* context.pages of the current context (line 73)
    all_urls,         \* line 59
    connected_ports,  \* line 60
    handles,          \* per port: "none", "open", "closed", "close_failed"
    scan_ret,         \* what the call handed to its caller
    env,              \* what answered on each port probed so far in this scan
    driverFaults,     \* failures of the driver injected in this scan
    prevEnv,          \* environment of the previous scan (second scan only)
    prevRet,          \* result of the previous scan
    downPort,         \* 0, or the port index that went down for the second scan
    probes,           \* the ports connect_over_cdp was called on in this scan
    stop_calls        \* calls of playwright.stop() in this scan

\* the records of what the scan called
hvars == <<probes, stop_calls>>

svars == <<scan_pc, playwright, port_i, ctx_idx, page_idx, pages, all_urls,
           connected_ports, handles, scan_ret, env, driverFaults,
           prevEnv, prevRet, downPort, hvars>>

VARIABLES
    GALILEO_AVAILABLE,        \* lines 41-48, fixed at module load
    an_pc,                    \* position inside analyze_urls / its caller
    caller,                   \* "main" (line 340) or "direct"
    tabs,                     \* first argument of analyze_urls
    custom_task,              \* second argument of analyze_urls
    logger,                   \* line 131: FALSE is None, TRUE the logger instance
    galileo_session_started,  \* line 132
    start_time_bound,         \* whether line 164 has bound start_time_ns
    task,                     \* lines 152-158
    result,                   \* outcome of agent.run(), line 172
    clean_analysis,           \* line 176
    an_ret,                   \* what the call handed to its caller
    calls,                    \* telemetry methods invoked in this call, in order
    oplog,                    \* warnings printed to the operator channel
    agent_runs,               \* invocations of the agent in this call
    ss_tabs,                  \* st.session_state['tabs']
    ss_analysis,              \* st.session_state['analysis']
    analysis_before,          \* ss_analysis when the running call started
    ui,                       \* the message main showed last
    ncalls                    \* analyses started so far

avars == <<GALILEO_AVAILABLE, an_pc, caller, tabs, custom_task, logger,
           galileo_session_started, start_time_bound, task, result,
           clean_analysis, an_ret, calls, oplog, agent_runs, ss_tabs,
           ss_analysis, analysis_before, ui, ncalls>>

VARIABLES
    widget_task,      \* custom_task of main: the text area of lines 322-332
    made_with,        \* the arguments of the call whose text is ss_analysis
    nfetch,           \* presses of Fetch Tabs so far, 0 outside main
    ss_timestamp,     \* st.session_state['timestamp']: the press that set it
    nedit             \* edits of the task so far

mvars == <<widget_task, made_with, nfetch, ss_timestamp, nedit>>

vars == <<svars, avars, mvars>>

(***************************************************************************)
(* Helpers of the scan.                                                    *)
(***************************************************************************)
StartsWith(s, p) == Len(s) >= Len(p) /\ SubSeq(s, 1, Len(p)) = p

\* the filter without its prefix test
IsFilteredUrl_ListOnly(url) == url \in {"about:blank", "chrome://newtab/", ""}

\* line 81: url in ['about:blank', 'chrome://newtab/', ''] or url.startswith('chrome://')
IsFilteredUrl(url) ==
    \/ url \in {"about:blank", "chrome://newtab/", ""}
    \/ StartsWith(url, "chrome://")

\* the record with the 0-based loop indices
tab_info_ZeroBased(port, c, p, page) ==
    [port |-> port, window |-> c, tab |-> p,
     url |-> page.url, title |-> page.title]

\* lines 84-90
tab_info(port, c, p, page) ==
    [port |-> port, window |-> c + 1, tab |-> p + 1,
     url |-> page.url, title |-> page.title]

RECURSIVE SumOver(_, _)
SumOver(f, n) == IF n = 0 THEN 0 ELSE f[n] + SumOver(f, n - 1)

UsedReach(e) == Cardinality({ i \in PortIdx : e[i].up })

\* size of the environment met so far, d driver failures included
EnvSize(e, d) == d + SumOver([i \in PortIdx |-> BrowserSize(e[i])], NPorts)

EmptyEnv == [i \in PortIdx |-> NoBrowser]

\* the browser connected in the current iteration of the port loop
browser == env[port_i]

port == ports_to_check[port_i]

FirstScan == downPort = 0

\* the size of the environments explored: of a scan on its own, of a scan
\* started by main
SizeLimit == IF nfetch = 0 THEN MaxSize ELSE MaxAppSize

(***************************************************************************)
(* fetch_all_chrome_urls, lines 54-117.                                    *)
(***************************************************************************)
InitScanVars ==
    /\ scan_pc = "start"
    /\ playwright = "none"
    /\ port_i = 1
    /\ ctx_idx = 0
    /\ page_idx = 0
    /\ pages = <<>>
    /\ all_urls = <<>>
    /\ connected_ports = <<>>
    /\ handles = [i \in PortIdx |-> "none"]
    /\ scan_ret = NoRet
    /\ env = EmptyEnv
    /\ driverFaults = 0
    /\ prevEnv = EmptyEnv
    /\ prevRet = NoRet
    /\ downPort = 0
    /\ probes = <<>>
    /\ stop_calls = 0

\* lines 56-60: the driver starts, the accumulators are created
StartDriver ==
    /\ scan_pc = "start"
    /\ playwright' = "started"
    /\ all_urls' = <<>>
    /\ connected_ports' = <<>>
    /\ port_i' = 1
    /\ scan_pc' = "probe"
    /\ UNCHANGED <<ctx_idx, page_idx, pages, handles, scan_ret, env,
                   driverFaults, prevEnv, prevRet, downPort, hvars, avars, mvars>>

\* line 56 raises: it stands before the try of line 62, nothing catches it
StartDriverFails ==
    /\ scan_pc = "start"
    /\ FirstScan
    /\ EnvSize(env, driverFaults) < SizeLimit
    /\ driverFaults' = driverFaults + 1
    /\ scan_pc' = "raised"
    /\ scan_ret' = [kind |-> "raise", value |-> <<>>]
    /\ UNCHANGED <<playwright, port_i, ctx_idx, page_idx, pages, all_urls,
                   connected_ports, handles, env, prevEnv, prevRet, downPort, hvars, avars, mvars>>

\* what may answer on the port about to be probed
Answers ==
    IF FirstScan
    THEN BrowserChoices(SizeLimit - EnvSize(env, driverFaults))
    ELSE IF port_i # downPort /\ prevEnv[port_i].up THEN {prevEnv[port_i]} ELSE {}

Refuses ==
    IF FirstScan THEN TRUE ELSE port_i = downPort \/ ~prevEnv[port_i].up

\* a successful connection that is not entered in the reachable list
ConnectOk_Unlisted ==
    /\ scan_pc = "probe"
    /\ port_i <= NPorts
    /\ \E b \in Answers : env' = [env EXCEPT ![port_i] = b]
    /\ handles' = [handles EXCEPT ![port_i] = "open"]
    /\ ctx_idx' = 0
    /\ scan_pc' = "ctx"
    /\ probes' = Append(probes, port)
    /\ UNCHANGED <<playwright, port_i, page_idx, pages, all_urls, scan_ret,
                   connected_ports, driverFaults, prevEnv, prevRet, downPort,
                   stop_calls, avars, mvars>>

\* lines 63-70: connect_over_cdp succeeds
ConnectOk ==
    /\ scan_pc = "probe"
    /\ port_i <= NPorts
    /\ \E b \in Answers : env' = [env EXCEPT ![port_i] = b]
    /\ connected_ports' = Append(connected_ports, port)
    /\ handles' = [handles EXCEPT ![port_i] = "open"]
    /\ ctx_idx' = 0
    /\ scan_pc' = "ctx"
    /\ probes' = Append(probes, port)
    /\ UNCHANGED <<playwright, port_i, page_idx, pages, all_urls, scan_ret,
                   driverFaults, prevEnv, prevRet, downPort, stop_calls, avars, mvars>>

\* a refused connection ends the port loop instead of continuing it
ConnectFails_Break ==
    /\ scan_pc = "probe"
    /\ port_i <= NPorts
    /\ Refuses
    /\ port_i' = NPorts + 1
    /\ probes' = Append(probes, port)
    /\ UNCHANGED <<scan_pc, playwright, ctx_idx, page_idx, pages, all_urls,
                   connected_ports, handles, scan_ret, env, driverFaults,
                   prevEnv, prevRet, downPort, stop_calls, avars, mvars>>

\* line 66 raises, lines 99-100: continue with the next port
ConnectFails ==
    /\ scan_pc = "probe"
    /\ port_i <= NPorts
    /\ Refuses
    /\ port_i' = port_i + 1
    /\ probes' = Append(probes, port)
    /\ UNCHANGED <<scan_pc, playwright, ctx_idx, page_idx, pages, all_urls,
                   connected_ports, handles, scan_ret, env, driverFaults,
                   prevEnv, prevRet, downPort, stop_calls, avars, mvars>>

\* lines 72-74: the next context hands out its pages
EnumContext ==
    /\ scan_pc = "ctx"
    /\ ctx_idx < Len(browser.contexts)
    /\ browser.contexts[ctx_idx + 1].ok
    /\ pages' = browser.contexts[ctx_idx + 1].pages
    /\ page_idx' = 0
    /\ IF browser.contexts[ctx_idx + 1].pages = <<>>
       THEN ctx_idx' = ctx_idx + 1 /\ scan_pc' = "ctx"
       ELSE ctx_idx' = ctx_idx /\ scan_pc' = "page"
    /\ UNCHANGED <<playwright, port_i, all_urls, connected_ports, handles,
                   scan_ret, env, driverFaults, prevEnv, prevRet, downPort, hvars, avars, mvars>>

\* lines 72-74 raise outside the per-page try: handler of lines 99-100,
\* line 97 is skipped
EnumContextFails ==
    /\ scan_pc = "ctx"
    /\ ctx_idx < Len(browser.contexts)
    /\ ~browser.contexts[ctx_idx + 1].ok
    /\ port_i' = port_i + 1
    /\ scan_pc' = "probe"
    /\ UNCHANGED <<playwright, ctx_idx, page_idx, pages, all_urls,
                   connected_ports, handles, scan_ret, env, driverFaults,
                   prevEnv, prevRet, downPort, hvars, avars, mvars>>

page == pages[page_idx + 1]

\* line 76: the page loop advances; after the last page the context loop does
NextPage ==
    IF page_idx + 1 < Len(pages)
    THEN page_idx' = page_idx + 1 /\ ctx_idx' = ctx_idx /\ scan_pc' = "page"
    ELSE page_idx' = page_idx /\ ctx_idx' = ctx_idx + 1 /\ scan_pc' = "ctx"

\* lines 78-79 raise, lines 94-95: continue
ReadPageFails ==
    /\ scan_pc = "page"
    /\ ~page.readable
    /\ NextPage
    /\ UNCHANGED <<playwright, port_i, pages, all_urls, connected_ports,
                   handles, scan_ret, env, driverFaults, prevEnv, prevRet,
                   downPort, hvars, avars, mvars>>

\* lines 78-82: the page is read and filtered out
SkipPage ==
    /\ scan_pc = "page"
    /\ page.readable
    /\ IsFilteredUrl(page.url)
    /\ NextPage
    /\ UNCHANGED <<playwright, port_i, pages, all_urls, connected_ports,
                   handles, scan_ret, env, driverFaults, prevEnv, prevRet,
                   downPort, hvars, avars, mvars>>

\* lines 78-92: the page is read and recorded
AppendTab ==
    /\ scan_pc = "page"
    /\ page.readable
    /\ ~IsFilteredUrl(page.url)
    /\ all_urls' = Append(all_urls, tab_info(port, ctx_idx, page_idx, page))
    /\ NextPage
    /\ UNCHANGED <<playwright, port_i, pages, connected_ports, handles,
                   scan_ret, env, driverFaults, prevEnv, prevRet, downPort, hvars, avars, mvars>>

\* line 97: the context loop is over, the connection is closed
CloseBrowser ==
    /\ scan_pc = "ctx"
    /\ ctx_idx = Len(browser.contexts)
    /\ browser.closeOk
    /\ handles' = [handles EXCEPT ![port_i] = "closed"]
    /\ port_i' = port_i + 1
    /\ scan_pc' = "probe"
    /\ UNCHANGED <<playwright, ctx_idx, page_idx, pages, all_urls,
                   connected_ports, scan_ret, env, driverFaults, prevEnv,
                   prevRet, downPort, hvars, avars, mvars>>

\* line 97 raises, lines 99-100: continue
CloseBrowserFails ==
    /\ scan_pc = "ctx"
    /\ ctx_idx = Len(browser.contexts)
    /\ ~browser.closeOk
    /\ handles' = [handles EXCEPT ![port_i] = "close_failed"]
    /\ port_i' = port_i + 1
    /\ scan_pc' = "probe"
    /\ UNCHANGED <<playwright, ctx_idx, page_idx, pages, all_urls,
                   connected_ports, scan_ret, env, driverFaults, prevEnv,
                   prevRet, downPort, hvars, avars, mvars>>

\* the summary returns without going through the finally clause
Summary_ReturnsDirectly ==
    /\ scan_pc = "probe"
    /\ port_i = NPorts + 1
    /\ scan_ret' = [kind |-> "return", value |-> all_urls]
    /\ scan_pc' = "returned"
    /\ UNCHANGED <<playwright, port_i, ctx_idx, page_idx, pages, all_urls,
                   connected_ports, handles, env, driverFaults,
                   prevEnv, prevRet, downPort, hvars, avars, mvars>>

\* lines 102-110: the loop is over, the summary is printed, return all_urls
\* is pending while the finally clause runs
Summary ==
    /\ scan_pc = "probe"
    /\ port_i = NPorts + 1
    /\ scan_ret' = [kind |-> "pending", value |-> all_urls]
    /\ scan_pc' = "stop"
    /\ UNCHANGED <<playwright, port_i, ctx_idx, page_idx, pages, all_urls,
                   connected_ports, handles, env, driverFaults,
                   prevEnv, prevRet, downPort, hvars, avars, mvars>>

\* lines 102-108 raise outside the inner try: handler of lines 112-114,
\* return [] is pending while the finally clause runs
SummaryFails ==
    /\ scan_pc = "probe"
    /\ port_i = NPorts + 1
    /\ FirstScan
    /\ EnvSize(env, driverFaults) < SizeLimit
    /\ driverFaults' = driverFaults + 1
    /\ scan_ret' = [kind |-> "pending", value |-> <<>>]
    /\ scan_pc' = "stop"
    /\ UNCHANGED <<playwright, port_i, ctx_idx, page_idx, pages, all_urls,
                   connected_ports, handles, env,
                   prevEnv, prevRet, downPort, hvars, avars, mvars>>

\* line 117, then the pending return of line 110 or 114
StopDriver ==
    /\ scan_pc = "stop"
    /\ playwright' = "stopped"
    /\ scan_ret' = [kind |-> "return", value |-> scan_ret.value]
    /\ scan_pc' = "returned"
    /\ stop_calls' = stop_calls + 1
    /\ UNCHANGED <<port_i, ctx_idx, page_idx, pages, all_urls,
                   connected_ports, handles, env, driverFaults, prevEnv,
                   prevRet, downPort, probes, avars, mvars>>

\* line 117 raises inside the finally clause: the exception replaces the return
StopDriverFails ==
    /\ scan_pc = "stop"
    /\ FirstScan
    /\ EnvSize(env, driverFaults) < SizeLimit
    /\ driverFaults' = driverFaults + 1
    /\ scan_ret' = [kind |-> "raise", value |-> <<>>]
    /\ scan_pc' = "raised"
    /\ stop_calls' = stop_calls + 1
    /\ UNCHANGED <<playwright, port_i, ctx_idx, page_idx, pages, all_urls,
                   connected_ports, handles, env, prevEnv, prevRet, downPort, probes, avars, mvars>>

\* main, lines 264-266: Fetch Tabs is pressed again; between the two scans one
\* endpoint that answered has gone down and nothing else has changed
FetchAgain ==
    /\ scan_pc = "returned"
    /\ FirstScan
    /\ driverFaults = 0
    /\ \E e \in PortIdx : env[e].up /\ downPort' = e
    /\ prevEnv' = env
    /\ prevRet' = scan_ret
    /\ env' = EmptyEnv
    /\ scan_pc' = "start"
    /\ playwright' = "none"
    /\ port_i' = 1
    /\ ctx_idx' = 0
    /\ page_idx' = 0
    /\ pages' = <<>>
    /\ all_urls' = <<>>
    /\ connected_ports' = <<>>
    /\ handles' = [i \in PortIdx |-> "none"]
    /\ scan_ret' = NoRet
    /\ driverFaults' = 0
    /\ probes' = <<>>
    /\ stop_calls' = 0
    /\ UNCHANGED <<avars, mvars>>

(***************************************************************************)
(* Values and inputs of the analysis.                                      *)
(***************************************************************************)
\* a Python value that is None or a string
PyNone == [isNone |-> TRUE, text |-> ""]

Str(t) == [isNone |-> FALSE, text |-> t]

\* Python truthiness of such a value
Truthy(v) == ~v.isNone /\ v.text # ""

\* a session_state key that is absent, or present with a value
Absent == [has |-> FALSE, value |-> <<>>]

Present(v) == [has |-> TRUE, value |-> v]

TabUniverse ==
    { [port |-> 9222, window |-> 1, tab |-> 1,
       url |-> "https://x.test/a", title |-> "Docs"],
      [port |-> 9223, window |-> 1, tab |-> 2,
       url |-> "https://x.test/a", title |-> ""] }

TabSeqs == UNION { [1..n -> TabUniverse] : n \in 0..MaxAnalyzeTabs }

TaskUniverse == {"", " \n", "List topics", "Find duplicate tabs"}

\* what result.final_result() may give: None, empty, plain text, and text
\* holding the two characters backslash and n
AgentResults == {PyNone, Str(""), Str("ok"), Str("line1\\nline2")}

NoResult == [kind |-> "none", final |-> PyNone]

\* str.replace(old, new) for a non-empty old
RECURSIVE Replace(_, _, _)
Replace(t, old, new) ==
    IF Len(t) < Len(old) THEN t
    ELSE IF SubSeq(t, 1, Len(old)) = old
         THEN new \o Replace(SubSeq(t, Len(old) + 1, Len(t)), old, new)
         ELSE SubSeq(t, 1, 1) \o Replace(SubSeq(t, 2, Len(t)), old, new)

Whitespace == {" ", "\n", "\t", "\r"}

\* str.strip()
RECURSIVE Strip(_)
Strip(t) ==
    IF t = "" THEN t
    ELSE IF SubSeq(t, 1, 1) \in Whitespace THEN Strip(SubSeq(t, 2, Len(t)))
    ELSE IF SubSeq(t, Len(t), Len(t)) \in Whitespace
         THEN Strip(SubSeq(t, 1, Len(t) - 1))
    ELSE t

\* the numbered lines with the 0-based index of enumerate
RECURSIVE urls_text_ZeroBased(_, _)
urls_text_ZeroBased(tb, i) ==
    IF i > Len(tb) THEN ""
    ELSE ToString(i - 1) \o ". " \o tb[i].title \o " - " \o tb[i].url
         \o (IF i < Len(tb) THEN "\n" ELSE "") \o urls_text_ZeroBased(tb, i + 1)

\* line 149: "\n".join of the numbered lines
RECURSIVE urls_text(_, _)
urls_text(tb, i) ==
    IF i > Len(tb) THEN ""
    ELSE ToString(i) \o ". " \o tb[i].title \o " - " \o tb[i].url
         \o (IF i < Len(tb) THEN "\n" ELSE "") \o urls_text(tb, i + 1)

\* lines 152-158
ComposedTask(tb, instr) ==
    "\n    I have " \o ToString(Len(tb))
      \o " browser tabs saved. Here's the list:\n    \n    "
      \o urls_text(tb, 1) \o "\n    \n    " \o instr \o "\n    "

\* the empty-result test looks for None only
Normalized_NoneOnly(analysis) ==
    IF ~analysis.isNone THEN Replace(analysis.text, "\\n", "\n")
    ELSE "Analysis failed"

\* line 176
Normalized(analysis) ==
    IF Truthy(analysis) THEN Replace(analysis.text, "\\n", "\n")
    ELSE "Analysis failed"

\* what analyze_urls returns when lines 134, 161 and 179 are all false:
\* lines 127-128, else lines 169-176 and 207
ReturnedWithoutTelemetry(tb, final) ==
    IF tb = <<>> THEN PyNone ELSE Str(Normalized(final))

\* the methods of a try block called in order until one raises
RECURSIVE Attempt(_, _)
Attempt(ms, failAt) ==
    IF ms = <<>> THEN <<>>
    ELSE IF Head(ms) = failAt THEN <<[m |-> Head(ms), ok |-> FALSE]>>
    ELSE <<[m |-> Head(ms), ok |-> TRUE]>> \o Attempt(Tail(ms), failAt)

InitBlock == <<"init", "get_logger_instance", "start_session">>

LogBlock == <<"add_llm_span", "conclude", "flush", "config">>

AtRest == an_pc \in {"idle", "returned", "raised"}

\* main is not inside the scan of line 266
ScanAtRest == nfetch = 0 \/ scan_pc \in {"idle", "raised"}

NoMade == [has |-> FALSE, task |-> "", tabs |-> <<>>]

\* presses of Fetch Tabs, edits of the task and analyses started so far
Events == nfetch + nedit + ncalls

\* main before its first run
MainAtRest ==
    /\ widget_task = ""
    /\ made_with = NoMade
    /\ nfetch = 0
    /\ ss_timestamp = 0
    /\ nedit = 0

(***************************************************************************)
(* analyze_urls, lines 124-207, and its caller, lines 335-346.             *)
(***************************************************************************)
AnalyzeAtRest ==
    /\ an_pc = "idle"
    /\ caller = "none"
    /\ tabs = <<>>
    /\ custom_task = ""
    /\ logger = FALSE
    /\ galileo_session_started = FALSE
    /\ start_time_bound = FALSE
    /\ task = ""
    /\ result = NoResult
    /\ clean_analysis = ""
    /\ an_ret = NoRet
    /\ calls = <<>>
    /\ oplog = <<>>
    /\ agent_runs = 0
    /\ ss_analysis = Absent
    /\ analysis_before = Absent
    /\ ui = "none"
    /\ ncalls = 0

\* a fresh frame of analyze_urls for the arguments (tb, instr)
Enter(who, tb, instr) ==
    /\ an_pc' = "check"
    /\ caller' = who
    /\ tabs' = tb
    /\ custom_task' = instr
    /\ logger' = FALSE
    /\ galileo_session_started' = FALSE
    /\ start_time_bound' = FALSE
    /\ task' = ""
    /\ result' = NoResult
    /\ clean_analysis' = ""
    /\ an_ret' = NoRet
    /\ calls' = <<>>
    /\ oplog' = <<>>
    /\ agent_runs' = 0
    /\ analysis_before' = ss_analysis
    /\ ncalls' = ncalls + 1

\* the task is tested against the empty string without strip()
AnalyzeClick_NoStrip ==
    /\ AtRest
    /\ ScanAtRest
    /\ ncalls < MaxCalls
    /\ Events < MaxEvents
    /\ ss_tabs.has /\ ss_tabs.value # <<>>
    /\ \E instr \in TaskUniverse :
         /\ instr # ""
         /\ widget_task' = instr
         /\ Enter("main", ss_tabs.value, instr)
    /\ ui' = "spinner"
    /\ UNCHANGED <<GALILEO_AVAILABLE, ss_tabs, ss_analysis, svars,
                   made_with, nfetch, ss_timestamp, nedit>>

\* main, lines 335-340: Analyze Tabs is pressed with a task that is not blank;
\* line 282 shows the button only over a non-empty inventory
AnalyzeClick ==
    /\ AtRest
    /\ ScanAtRest
    /\ ncalls < MaxCalls
    /\ Events < MaxEvents
    /\ ss_tabs.has /\ ss_tabs.value # <<>>
    /\ \E instr \in TaskUniverse :
         /\ Strip(instr) # ""
         /\ widget_task' = instr
         /\ Enter("main", ss_tabs.value, instr)
    /\ ui' = "spinner"
    /\ UNCHANGED <<GALILEO_AVAILABLE, ss_tabs, ss_analysis, svars,
                   made_with, nfetch, ss_timestamp, nedit>>

\* main, lines 335-337: Analyze Tabs is pressed with a blank task; no frame
\* of analyze_urls exists in this run of the script
AnalyzeClickBlank ==
    /\ AtRest
    /\ ScanAtRest
    /\ ss_tabs.has /\ ss_tabs.value # <<>>
    /\ \E instr \in TaskUniverse :
         /\ Strip(instr) = ""
         /\ widget_task' = instr
         /\ custom_task' = instr
    /\ ui' = "enter_task"
    /\ an_pc' = "idle"
    /\ caller' = "none"
    /\ tabs' = <<>>
    /\ logger' = FALSE
    /\ galileo_session_started' = FALSE
    /\ start_time_bound' = FALSE
    /\ task' = ""
    /\ result' = NoResult
    /\ clean_analysis' = ""
    /\ an_ret' = NoRet
    /\ calls' = <<>>
    /\ oplog' = <<>>
    /\ agent_runs' = 0
    /\ analysis_before' = ss_analysis
    /\ UNCHANGED <<GALILEO_AVAILABLE, ss_tabs, ss_analysis, ncalls, svars,
                   made_with, nfetch, ss_timestamp, nedit>>

\* line 124: analyze_urls is called by code other than main, in a process
\* that holds no session of main
DirectCall ==
    /\ AtRest
    /\ ScanAtRest
    /\ ~ss_tabs.has
    /\ ncalls < MaxCalls
    /\ Events < MaxEvents
    /\ \E tb \in TabSeqs, instr \in TaskUniverse : Enter("direct", tb, instr)
    /\ UNCHANGED <<GALILEO_AVAILABLE, ss_tabs, ss_analysis, ui, svars, mvars>>

\* the empty inventory passes the test of line 127
AnalyzeRejectsEmpty_Never ==
    /\ an_pc = "check"
    /\ tabs = <<>>
    /\ an_pc' = "galileo"
    /\ UNCHANGED <<GALILEO_AVAILABLE, caller, tabs, custom_task, logger,
                   galileo_session_started, start_time_bound, task, result,
                   clean_analysis, an_ret, calls, oplog, agent_runs, ss_tabs,
                   ss_analysis, analysis_before, ui, ncalls, svars, mvars>>

\* lines 127-128
AnalyzeRejectsEmpty ==
    /\ an_pc = "check"
    /\ tabs = <<>>
    /\ an_ret' = [kind |-> "return", value |-> PyNone]
    /\ an_pc' = "returned"
    /\ UNCHANGED <<GALILEO_AVAILABLE, caller, tabs, custom_task, logger,
                   galileo_session_started, start_time_bound, task, result,
                   clean_analysis, calls, oplog, agent_runs, ss_tabs,
                   ss_analysis, analysis_before, ui, ncalls, svars, mvars>>

\* lines 127, 131-132
AnalyzeEnter ==
    /\ an_pc = "check"
    /\ tabs # <<>>
    /\ logger' = FALSE
    /\ galileo_session_started' = FALSE
    /\ an_pc' = "galileo"
    /\ UNCHANGED <<GALILEO_AVAILABLE, caller, tabs, custom_task,
                   start_time_bound, task, result, clean_analysis, an_ret,
                   calls, oplog, agent_runs, ss_tabs, ss_analysis,
                   analysis_before, ui, ncalls, svars, mvars>>

\* the initialisation block runs although the backend is unavailable
GalileoUnavailable_InitAnyway ==
    /\ an_pc = "galileo"
    /\ ~GALILEO_AVAILABLE
    /\ calls' = calls \o Attempt(InitBlock, "none")
    /\ logger' = TRUE
    /\ galileo_session_started' = TRUE
    /\ oplog' = Append(oplog, "session_started")
    /\ an_pc' = "compose"
    /\ UNCHANGED <<GALILEO_AVAILABLE, caller, tabs, custom_task,
                   start_time_bound, task, result, clean_analysis, an_ret,
                   agent_runs, ss_tabs, ss_analysis, analysis_before, ui,
                   ncalls, svars, mvars>>

\* line 134 is false
GalileoUnavailable ==
    /\ an_pc = "galileo"
    /\ ~GALILEO_AVAILABLE
    /\ an_pc' = "compose"
    /\ UNCHANGED <<GALILEO_AVAILABLE, caller, tabs, custom_task, logger,
                   galileo_session_started, start_time_bound, task, result,
                   clean_analysis, an_ret, calls, oplog, agent_runs, ss_tabs,
                   ss_analysis, analysis_before, ui, ncalls, svars, mvars>>

\* lines 134-146: init, get_logger_instance, start_session; the first that
\* raises leaves the block through the handler of lines 144-146
GalileoInit ==
    /\ an_pc = "galileo"
    /\ GALILEO_AVAILABLE
    /\ \E failAt \in {"none", "init", "get_logger_instance", "start_session"} :
         /\ calls' = calls \o Attempt(InitBlock, failAt)
         /\ logger' = (failAt = "none")
         /\ galileo_session_started' = (failAt = "none")
         /\ oplog' = Append(oplog, IF failAt = "none" THEN "session_started"
                                   ELSE "initialization_failed")
    /\ an_pc' = "compose"
    /\ UNCHANGED <<GALILEO_AVAILABLE, caller, tabs, custom_task,
                   start_time_bound, task, result, clean_analysis, an_ret,
                   agent_runs, ss_tabs, ss_analysis, analysis_before, ui,
                   ncalls, svars, mvars>>

\* lines 149-158
ComposeTask ==
    /\ an_pc = "compose"
    /\ task' = ComposedTask(tabs, custom_task)
    /\ an_pc' = "trace"
    /\ UNCHANGED <<GALILEO_AVAILABLE, caller, tabs, custom_task, logger,
                   galileo_session_started, start_time_bound, result,
                   clean_analysis, an_ret, calls, oplog, agent_runs, ss_tabs,
                   ss_analysis, analysis_before, ui, ncalls, svars, mvars>>

\* line 161 is false
SkipTrace ==
    /\ an_pc = "trace"
    /\ ~(logger /\ galileo_session_started)
    /\ an_pc' = "agent"
    /\ UNCHANGED <<GALILEO_AVAILABLE, caller, tabs, custom_task, logger,
                   galileo_session_started, start_time_bound, task, result,
                   clean_analysis, an_ret, calls, oplog, agent_runs, ss_tabs,
                   ss_analysis, analysis_before, ui, ncalls, svars, mvars>>

\* start_time_ns is bound before start_trace is called
StartTrace_TimeFirst ==
    /\ an_pc = "trace"
    /\ logger /\ galileo_session_started
    /\ \E ok \in BOOLEAN :
         /\ calls' = Append(calls, [m |-> "start_trace", ok |-> ok])
         /\ start_time_bound' = TRUE
         /\ oplog' = IF ok THEN oplog ELSE Append(oplog, "trace_failed")
    /\ an_pc' = "agent"
    /\ UNCHANGED <<GALILEO_AVAILABLE, caller, tabs, custom_task, logger,
                   galileo_session_started, task, result, clean_analysis,
                   an_ret, agent_runs, ss_tabs, ss_analysis, analysis_before,
                   ui, ncalls, svars, mvars>>

\* lines 161-166: start_trace, then line 164 binds start_time_ns; when
\* start_trace raises, line 164 is not reached
StartTrace ==
    /\ an_pc = "trace"
    /\ logger /\ galileo_session_started
    /\ \E ok \in BOOLEAN :
         /\ calls' = Append(calls, [m |-> "start_trace", ok |-> ok])
         /\ start_time_bound' = ok
         /\ oplog' = IF ok THEN oplog ELSE Append(oplog, "trace_failed")
    /\ an_pc' = "agent"
    /\ UNCHANGED <<GALILEO_AVAILABLE, caller, tabs, custom_task, logger,
                   galileo_session_started, task, result, clean_analysis,
                   an_ret, agent_runs, ss_tabs, ss_analysis, analysis_before,
                   ui, ncalls, svars, mvars>>

\* lines 169-176: the agent runs to its end, its final result is normalised
RunAgent ==
    /\ an_pc = "agent"
    /\ \E final \in AgentResults :
         /\ result' = [kind |-> "done", final |-> final]
         /\ clean_analysis' = Normalized(final)
    /\ agent_runs' = agent_runs + 1
    /\ an_pc' = "log"
    /\ UNCHANGED <<GALILEO_AVAILABLE, caller, tabs, custom_task, logger,
                   galileo_session_started, start_time_bound, task, an_ret,
                   calls, oplog, ss_tabs, ss_analysis, analysis_before, ui,
                   ncalls, svars, mvars>>

\* an exception of the agent is answered with the failure marker
AgentRaises_Caught ==
    /\ an_pc = "agent"
    /\ result' = [kind |-> "raised", final |-> PyNone]
    /\ clean_analysis' = "Analysis failed"
    /\ agent_runs' = agent_runs + 1
    /\ an_pc' = "log"
    /\ UNCHANGED <<GALILEO_AVAILABLE, caller, tabs, custom_task, logger,
                   galileo_session_started, start_time_bound, task, an_ret,
                   calls, oplog, ss_tabs, ss_analysis, analysis_before, ui,
                   ncalls, svars, mvars>>

\* lines 169-172 raise: no handler in analyze_urls, none around line 340
AgentRaises ==
    /\ an_pc = "agent"
    /\ result' = [kind |-> "raised", final |-> PyNone]
    /\ agent_runs' = agent_runs + 1
    /\ an_ret' = [kind |-> "raise", value |-> PyNone]
    /\ an_pc' = "raised"
    /\ ui' = IF caller = "main" THEN "exception" ELSE ui
    /\ UNCHANGED <<GALILEO_AVAILABLE, caller, tabs, custom_task, logger,
                   galileo_session_started, start_time_bound, task,
                   clean_analysis, calls, oplog, ss_tabs, ss_analysis,
                   analysis_before, ncalls, svars, mvars>>

\* line 179 is false
SkipLog ==
    /\ an_pc = "log"
    /\ ~(logger /\ galileo_session_started)
    /\ an_pc' = "ret"
    /\ UNCHANGED <<GALILEO_AVAILABLE, caller, tabs, custom_task, logger,
                   galileo_session_started, start_time_bound, task, result,
                   clean_analysis, an_ret, calls, oplog, agent_runs, ss_tabs,
                   ss_analysis, analysis_before, ui, ncalls, svars, mvars>>

\* an exception inside the logging block leaves analyze_urls
LogToGalileo_Propagates ==
    /\ an_pc = "log"
    /\ logger /\ galileo_session_started
    /\ \E failAt \in (IF start_time_bound
                      THEN {"none", "add_llm_span", "conclude", "flush", "config"}
                      ELSE {"start_time_ns"}) :
         /\ calls' = calls \o (IF failAt = "start_time_ns" THEN <<>>
                               ELSE Attempt(LogBlock, failAt))
         /\ oplog' = oplog \o (IF failAt \in {"none", "config"}
                               THEN <<"logged">> ELSE <<>>)
         /\ IF failAt = "none"
            THEN an_pc' = "ret" /\ an_ret' = an_ret
            ELSE an_pc' = "raised" /\ an_ret' = [kind |-> "raise", value |-> PyNone]
    /\ UNCHANGED <<GALILEO_AVAILABLE, caller, tabs, custom_task, logger,
                   galileo_session_started, start_time_bound, task, result,
                   clean_analysis, agent_runs, ss_tabs, ss_analysis,
                   analysis_before, ui, ncalls, svars, mvars>>

\* lines 179-205: line 181 reads start_time_ns (a NameError when line 164 was
\* not reached), then add_llm_span, conclude, flush and the configuration
\* lookup; the first that raises leaves the block through lines 204-205
LogToGalileo ==
    /\ an_pc = "log"
    /\ logger /\ galileo_session_started
    /\ \E failAt \in (IF start_time_bound
                      THEN {"none", "add_llm_span", "conclude", "flush", "config"}
                      ELSE {"start_time_ns"}) :
         /\ calls' = calls \o (IF failAt = "start_time_ns" THEN <<>>
                               ELSE Attempt(LogBlock, failAt))
         /\ oplog' = oplog \o (IF failAt \in {"none", "config"}
                               THEN <<"logged">> ELSE <<>>)
                           \o (IF failAt = "none" THEN <<>>
                               ELSE <<"logging_failed">>)
    /\ an_pc' = "ret"
    /\ UNCHANGED <<GALILEO_AVAILABLE, caller, tabs, custom_task, logger,
                   galileo_session_started, start_time_bound, task, result,
                   clean_analysis, an_ret, agent_runs, ss_tabs, ss_analysis,
                   analysis_before, ui, ncalls, svars, mvars>>

\* line 207
AnalyzeReturn ==
    /\ an_pc = "ret"
    /\ an_ret' = [kind |-> "return", value |-> Str(clean_analysis)]
    /\ an_pc' = "returned"
    /\ UNCHANGED <<GALILEO_AVAILABLE, caller, tabs, custom_task, logger,
                   galileo_session_started, start_time_bound, task, result,
                   clean_analysis, calls, oplog, agent_runs, ss_tabs,
                   ss_analysis, analysis_before, ui, ncalls, svars, mvars>>

\* main, lines 340-346: the returned text is stored when it is truthy
MainAfterAnalyze ==
    /\ an_pc = "returned"
    /\ caller = "main"
    /\ IF Truthy(an_ret.value)
       THEN /\ ss_analysis' = Present(an_ret.value.text)
            /\ made_with' = [has |-> TRUE, task |-> custom_task, tabs |-> tabs]
            /\ ui' = "success"
       ELSE /\ ss_analysis' = ss_analysis
            /\ made_with' = made_with
            /\ ui' = "analysis_failed"
    /\ an_pc' = "idle"
    /\ UNCHANGED <<GALILEO_AVAILABLE, caller, tabs, custom_task, logger,
                   galileo_session_started, start_time_bound, task, result,
                   clean_analysis, an_ret, calls, oplog, agent_runs, ss_tabs,
                   analysis_before, ncalls, svars,
                   widget_task, nfetch, ss_timestamp,
                   nedit>>

InitAnalyze ==
    /\ InitScanVars
    /\ AnalyzeAtRest
    /\ MainAtRest
    /\ GALILEO_AVAILABLE \in BOOLEAN
    /\ ss_tabs \in {Absent} \cup { Present(tb) : tb \in TabSeqs \ {<<>>} }

NextAnalyze ==
    \/ AnalyzeClick
    \/ AnalyzeClickBlank
    \/ DirectCall
    \/ AnalyzeRejectsEmpty
    \/ AnalyzeEnter
    \/ GalileoUnavailable
    \/ GalileoInit
    \/ ComposeTask
    \/ SkipTrace
    \/ StartTrace
    \/ RunAgent
    \/ AgentRaises
    \/ SkipLog
    \/ LogToGalileo
    \/ AnalyzeReturn
    \/ MainAfterAnalyze

SpecAnalyze == InitAnalyze /\ [][NextAnalyze]_vars

InitScan ==
    /\ InitScanVars
    /\ AnalyzeAtRest
    /\ MainAtRest
    /\ GALILEO_AVAILABLE = FALSE
    /\ ss_tabs = Absent

NextScan ==
    \/ StartDriver
    \/ StartDriverFails
    \/ ConnectOk
    \/ ConnectFails
    \/ EnumContext
    \/ EnumContextFails
    \/ ReadPageFails
    \/ SkipPage
    \/ AppendTab
    \/ CloseBrowser
    \/ CloseBrowserFails
    \/ Summary
    \/ SummaryFails
    \/ StopDriver
    \/ StopDriverFails
    \/ FetchAgain

SpecScan == InitScan /\ [][NextScan]_vars

(***************************************************************************)
(* main, lines 214-379: one run of the script for each press or edit.      *)
(***************************************************************************)
\* no frame of analyze_urls exists in a run of the script that does not
\* reach line 340
ClearFrame ==
    /\ an_pc' = "idle"
    /\ caller' = "none"
    /\ tabs' = <<>>
    /\ custom_task' = ""
    /\ logger' = FALSE
    /\ galileo_session_started' = FALSE
    /\ start_time_bound' = FALSE
    /\ task' = ""
    /\ result' = NoResult
    /\ clean_analysis' = ""
    /\ an_ret' = NoRet
    /\ calls' = <<>>
    /\ oplog' = <<>>
    /\ agent_runs' = 0
    /\ analysis_before' = ss_analysis

\* lines 264-266: Fetch Tabs is pressed, fetch_all_chrome_urls is entered
FetchClick ==
    /\ AtRest
    /\ scan_pc \in {"idle", "raised"}
    /\ Events < MaxEvents
    /\ nfetch' = nfetch + 1
    /\ scan_pc' = "start"
    /\ playwright' = "none"
    /\ port_i' = 1
    /\ ctx_idx' = 0
    /\ page_idx' = 0
    /\ pages' = <<>>
    /\ all_urls' = <<>>
    /\ connected_ports' = <<>>
    /\ handles' = [i \in PortIdx |-> "none"]
    /\ scan_ret' = NoRet
    /\ env' = EmptyEnv
    /\ driverFaults' = 0
    /\ probes' = <<>>
    /\ stop_calls' = 0
    /\ ClearFrame
    /\ ui' = "fetching"
    /\ UNCHANGED <<prevEnv, prevRet, downPort, GALILEO_AVAILABLE, ss_tabs,
                   ss_analysis, ncalls, widget_task, made_with, ss_timestamp,
                   nedit>>

\* lines 266-273: the scan returned and its frame is gone; a list that is
\* not empty is stored with its timestamp, an empty one only shows
\* "No tabs found"
MainAfterFetch ==
    /\ scan_pc = "returned"
    /\ nfetch > 0
    /\ IF scan_ret.value # <<>>
       THEN /\ ss_tabs' = Present(scan_ret.value)
            /\ ss_timestamp' = nfetch
            /\ ui' = "found"
       ELSE /\ ss_tabs' = ss_tabs
            /\ ss_timestamp' = ss_timestamp
            /\ ui' = "no_tabs"
    /\ scan_pc' = "idle"
    /\ playwright' = "none"
    /\ port_i' = 1
    /\ ctx_idx' = 0
    /\ page_idx' = 0
    /\ pages' = <<>>
    /\ all_urls' = <<>>
    /\ connected_ports' = <<>>
    /\ handles' = [i \in PortIdx |-> "none"]
    /\ env' = EmptyEnv
    /\ driverFaults' = 0
    /\ probes' = <<>>
    /\ stop_calls' = 0
    /\ UNCHANGED <<scan_ret, prevEnv, prevRet, downPort,
                   GALILEO_AVAILABLE, an_pc, caller, tabs, custom_task, logger,
                   galileo_session_started, start_time_bound, task, result,
                   clean_analysis, an_ret, calls, oplog, agent_runs,
                   ss_analysis, analysis_before, ncalls,
                   widget_task, made_with, nfetch, nedit>>

\* lines 315-332: the task type or the text of the task is changed; the
\* script runs again without any button pressed
EditTask ==
    /\ AtRest
    /\ scan_pc \in {"idle", "raised"}
    /\ ss_tabs.has /\ ss_tabs.value # <<>>
    /\ Events < MaxEvents
    /\ \E instr \in TaskUniverse \ {widget_task} : widget_task' = instr
    /\ nedit' = nedit + 1
    /\ ClearFrame
    /\ ui' = "none"
    /\ UNCHANGED <<GALILEO_AVAILABLE, ss_tabs, ss_analysis, ncalls, svars,
                   made_with, nfetch, ss_timestamp>>

\* lines 349-376 were reached by the last run of the script: it was not
\* ended by an exception, an inventory and an analysis are in the session
ExportOffered ==
    /\ an_pc = "idle"
    /\ scan_pc = "idle"
    /\ ss_tabs.has /\ ss_tabs.value # <<>>
    /\ ss_analysis.has

\* lines 364-370
export_data ==
    [timestamp |-> ss_timestamp,
     total_tabs |-> Len(ss_tabs.value),
     task |-> widget_task,
     analysis |-> ss_analysis.value,
     tabs |-> ss_tabs.value]

\* a session of main in a process where the import of line 42 failed
InitApp ==
    /\ scan_pc = "idle"
    /\ playwright = "none"
    /\ port_i = 1
    /\ ctx_idx = 0
    /\ page_idx = 0
    /\ pages = <<>>
    /\ all_urls = <<>>
    /\ connected_ports = <<>>
    /\ handles = [i \in PortIdx |-> "none"]
    /\ scan_ret = NoRet
    /\ env = EmptyEnv
    /\ driverFaults = 0
    /\ prevEnv = EmptyEnv
    /\ prevRet = NoRet
    /\ downPort = 0
    /\ probes = <<>>
    /\ stop_calls = 0
    /\ AnalyzeAtRest
    /\ MainAtRest
    /\ GALILEO_AVAILABLE = FALSE
    /\ ss_tabs = Absent

\* the steps of main, of the scan it starts and of the analysis it starts
NextApp ==
    \/ FetchClick
    \/ StartDriver
    \/ StartDriverFails
    \/ ConnectOk
    \/ ConnectFails
    \/ EnumContext
    \/ EnumContextFails
    \/ ReadPageFails
    \/ SkipPage
    \/ AppendTab
    \/ CloseBrowser
    \/ CloseBrowserFails
    \/ Summary
    \/ SummaryFails
    \/ StopDriver
    \/ StopDriverFails
    \/ MainAfterFetch
    \/ EditTask
    \/ AnalyzeClick
    \/ AnalyzeClickBlank
    \/ AnalyzeEnter
    \/ GalileoUnavailable
    \/ ComposeTask
    \/ SkipTrace
    \/ RunAgent
    \/ AgentRaises
    \/ SkipLog
    \/ AnalyzeReturn
    \/ MainAfterAnalyze

SpecApp == InitApp /\ [][NextApp]_vars

TypeScan ==
    scan_pc \in {"idle", "start", "probe", "ctx", "page", "stop", "returned", "raised"}

(***************************************************************************)
(* Properties of the scan.                                                 *)
(***************************************************************************)
\* the urls the specification excludes from every inventory
ExcludedUrl(url) ==
    \/ url = ""
    \/ url = "about:blank"
    \/ url = "chrome://newtab/"
    \/ (Len(url) >= 9 /\ SubSeq(url, 1, 9) = "chrome://")

\* records of the readable, non-excluded pages of one context, in page order
ContextRecords(portno, w, pgs) ==
    LET Keep(k) == pgs[k].readable /\ ~ExcludedUrl(pgs[k].url)
        kept == SelectSeq([k \in 1..Len(pgs) |-> k], Keep)
    IN  [j \in 1..Len(kept) |->
            [port |-> portno, window |-> w, tab |-> kept[j],
             url |-> pgs[kept[j]].url, title |-> pgs[kept[j]].title]]

RECURSIVE BrowserRecords(_, _, _)
BrowserRecords(portno, cs, w) ==
    IF w > Len(cs) THEN <<>>
    ELSE ContextRecords(portno, w, cs[w].pages) \o BrowserRecords(portno, cs, w + 1)

RECURSIVE ScanRecords(_, _)
ScanRecords(e, i) ==
    IF i > NPorts THEN <<>>
    ELSE (IF e[i].up THEN BrowserRecords(ports_to_check[i], e[i].contexts, 1)
          ELSE <<>>) \o ScanRecords(e, i + 1)

\* C1: a scan that returns hands back exactly the records of all readable,
\* non-filtered pages of the endpoints that answered, in candidate-list, then
\* context, then page order, with nothing reordered or deduplicated.
C1_ScanIsOrderedConcatenation ==
    scan_pc = "returned" => scan_ret.value = ScanRecords(env, 1)

OpenHandles == { i \in PortIdx : handles[i] = "open" }

\* C2: whenever the scan is about to probe the next endpoint, or has left the
\* port loop, close has been called on every handle it obtained; so at most one
\* handle is open at any time.
C2_HandleClosedBeforeNextProbe ==
    /\ Cardinality(OpenHandles) <= 1
    /\ scan_pc \in {"probe", "stop", "returned", "raised"} => OpenHandles = {}

\* C3: no record accumulated or returned by a scan has an url that is empty,
\* about:blank, chrome://newtab/ or that starts with chrome://, whatever its title.
C3_NoExcludedUrlInRecords ==
    /\ \A k \in 1..Len(all_urls) : ~ExcludedUrl(all_urls[k].url)
    /\ \A k \in 1..Len(scan_ret.value) : ~ExcludedUrl(scan_ret.value[k].url)

\* a scan returned a record although a browser-internal page titled like it
\* stood before it in the same window
C3_Witness ==
    /\ scan_pc = "returned"
    /\ \E i \in PortIdx :
         /\ env[i].up
         /\ Len(env[i].contexts) = 1
         /\ env[i].contexts[1].ok
         /\ Len(env[i].contexts[1].pages) = 2
         /\ env[i].contexts[1].pages[1].url = "chrome://settings"
         /\ env[i].contexts[1].pages[1].title = "Docs"
         /\ scan_ret.value = <<[port |-> ports_to_check[i], window |-> 1, tab |-> 2,
                                url |-> "https://x.test/a", title |-> "Docs"]>>

\* C4: fetch_all_chrome_urls never raises to its caller; when no endpoint
\* answers it returns the empty sequence with an empty reachable list.
C4_ScanNeverRaises ==
    /\ scan_ret.kind # "raise"
    /\ scan_pc # "raised"
    /\ (scan_pc = "returned" /\ UsedReach(env) = 0) =>
          (scan_ret = [kind |-> "return", value |-> <<>>] /\ connected_ports = <<>>)

NotFromPort(s, i) ==
    LET Other(r) == r.port # ports_to_check[i] IN SelectSeq(s, Other)

\* C5: two scans that differ only in whether one endpoint answers return the
\* same records, in the same order, for every other endpoint.
C5_EndpointIsolation ==
    (scan_pc = "returned" /\ downPort # 0) =>
        NotFromPort(scan_ret.value, downPort) = NotFromPort(prevRet.value, downPort)

\* the second scan returned; the first had records of the endpoint that went
\* down, standing before records of another endpoint
C5_Witness ==
    /\ scan_pc = "returned"
    /\ downPort # 0
    /\ Len(prevRet.value) = 2
    /\ prevRet.value[1].port = ports_to_check[downPort]
    /\ prevRet.value[2].port # ports_to_check[downPort]
    /\ Len(scan_ret.value) = 1

(***************************************************************************)
(* Properties of the analysis.                                             *)
(***************************************************************************)
Called(m) == \E k \in 1..Len(calls) : calls[k].m = m

SucceededBefore(m, k) == \E j \in 1..(k - 1) : calls[j].m = m /\ calls[j].ok

\* C6: a call of analyze_urls with an empty tab sequence returns None, and
\* neither runs the agent nor calls or reports anything of the telemetry.
C6_EmptyInventoryRejected ==
    (caller # "none" /\ tabs = <<>>) =>
        /\ agent_runs = 0
        /\ calls = <<>>
        /\ oplog = <<>>
        /\ an_pc \in {"check", "returned"}
        /\ an_pc = "returned" => an_ret = [kind |-> "return", value |-> PyNone]

\* the rejection happened in a process where the telemetry backend is present
C6_Witness ==
    /\ an_pc = "returned"
    /\ caller = "direct"
    /\ tabs = <<>>
    /\ GALILEO_AVAILABLE
    /\ an_ret = [kind |-> "return", value |-> PyNone]

\* C7: when the agent completes with a null or empty final result, the call
\* returns exactly "Analysis failed" without raising, and main stores that text
\* as the current analysis and reports success.
C7_EmptyResultGivesMarker ==
    (result.kind = "done" /\ ~Truthy(result.final)) =>
        /\ an_ret.kind # "raise"
        /\ an_pc # "raised"
        /\ clean_analysis = "Analysis failed"
        /\ an_ret.kind = "return" => an_ret.value = Str("Analysis failed")
        /\ (caller = "main" /\ an_pc = "idle") =>
              (ss_analysis = Present("Analysis failed") /\ ui = "success")

\* main stored the marker after the agent completed with the empty string
C7_Witness ==
    /\ caller = "main"
    /\ an_pc = "idle"
    /\ result = [kind |-> "done", final |-> Str("")]
    /\ ss_analysis = Present("Analysis failed")
    /\ ui = "success"

\* C8: whichever telemetry steps raise, analyze_urls raises only when the agent
\* did, and the text it returns is the text it returns without telemetry.
C8_TelemetryNonFatal ==
    /\ (an_ret.kind = "raise" \/ an_pc = "raised") => result.kind = "raised"
    /\ (an_ret.kind = "return" /\ tabs # <<>>) =>
          an_ret.value = ReturnedWithoutTelemetry(tabs, result.final)

\* the call returned the agent's text although start_trace raised and the
\* logging block failed after it
C8_Witness ==
    /\ an_ret = [kind |-> "return", value |-> Str("line1\nline2")]
    /\ \E k \in 1..Len(calls) : calls[k].m = "start_trace" /\ ~calls[k].ok
    /\ \E k \in 1..Len(oplog) : oplog[k] = "logging_failed"

\* C9: when the agent raises, the exception leaves analyze_urls, no text is
\* returned, the analysis held by the caller stays what it was, and neither
\* add_llm_span nor conclude nor flush is called in that call.
C9_AgentFailurePropagates ==
    result.kind = "raised" =>
        /\ an_pc = "raised"
        /\ an_ret = [kind |-> "raise", value |-> PyNone]
        /\ ss_analysis = analysis_before
        /\ ~Called("add_llm_span") /\ ~Called("conclude") /\ ~Called("flush")

\* the agent raised under main, after a session and a trace were started and
\* while an earlier analysis was held
C9_Witness ==
    /\ an_pc = "raised"
    /\ caller = "main"
    /\ ss_analysis.has
    /\ \E k \in 1..Len(calls) : calls[k].m = "start_trace" /\ calls[k].ok

Rank(m) ==
    CASE m = "init" -> 1
      [] m = "get_logger_instance" -> 2
      [] m = "start_session" -> 3
      [] m = "start_trace" -> 4
      [] m = "add_llm_span" -> 5
      [] m = "conclude" -> 6
      [] m = "flush" -> 7
      [] m = "config" -> 8

\* C10: within one call the telemetry steps occur in the order session start,
\* trace open, span record, conclude, flush, each at most once, and a step is
\* called only after the step it depends on succeeded in that call.
C10_TelemetryOrder ==
    /\ \A j, k \in 1..Len(calls) : j < k => Rank(calls[j].m) < Rank(calls[k].m)
    /\ \A k \in 1..Len(calls) :
         /\ calls[k].m = "start_trace" => SucceededBefore("start_session", k)
         /\ calls[k].m = "add_llm_span" => SucceededBefore("start_trace", k)
         /\ calls[k].m = "conclude" => SucceededBefore("add_llm_span", k)
         /\ calls[k].m = "flush" => SucceededBefore("add_llm_span", k)

\* a call ended in which the session started, start_trace raised, and nothing
\* was called after it
C10_Witness ==
    /\ an_ret.kind = "return"
    /\ calls = <<[m |-> "init", ok |-> TRUE],
                 [m |-> "get_logger_instance", ok |-> TRUE],
                 [m |-> "start_session", ok |-> TRUE],
                 [m |-> "start_trace", ok |-> FALSE]>>

(***************************************************************************)
(* The reachable list.                                                     *)
(***************************************************************************)
Range(f) == { f[i] : i \in DOMAIN f }

\* the ports whose connect_over_cdp handed out a browser in this scan
SucceededPorts == { ports_to_check[i] : i \in { j \in PortIdx : handles[j] # "none" } }

IsMember(p) == p \in Range(connected_ports)

\* C17: at every point of a scan a port is in connected_ports exactly when
\* its connection attempt succeeded in this scan, connected_ports is
\* ports_to_check restricted to those ports, in the order of ports_to_check,
\* and the port of every record accumulated so far is in connected_ports.
C17_ReachableListConsistent ==
    /\ Range(connected_ports) = SucceededPorts
    /\ connected_ports = SelectSeq(ports_to_check, IsMember)
    /\ \A k \in DOMAIN all_urls : all_urls[k].port \in Range(connected_ports)

\* a finished scan with two reachable ports after an unreachable first one,
\* and records
C17_Witness ==
    /\ scan_pc = "returned"
    /\ Len(connected_ports) = 2
    /\ connected_ports[1] # ports_to_check[1]
    /\ Len(probes) = NPorts
    /\ all_urls # <<>>

(***************************************************************************)
(* Window and tab indices.                                                 *)
(***************************************************************************)
IndexOfPort(p) == CHOOSE i \in PortIdx : ports_to_check[i] = p

\* record r sits at its own window and tab position of the browser on its port
AtItsPosition(r) ==
    /\ r.port \in Range(ports_to_check)
    /\ LET b == env[IndexOfPort(r.port)]
       IN  /\ b.up
           /\ r.window \in 1..Len(b.contexts)
           /\ r.tab \in 1..Len(b.contexts[r.window].pages)
           /\ b.contexts[r.window].pages[r.tab].url = r.url
           /\ b.contexts[r.window].pages[r.tab].title = r.title

WellIndexed(recs) ==
    /\ \A k \in DOMAIN recs : AtItsPosition(recs[k])
    /\ \A j, k \in DOMAIN recs :
          j < k =>
            /\ <<recs[j].port, recs[j].window, recs[j].tab>>
                 # <<recs[k].port, recs[k].window, recs[k].tab>>
            /\ (recs[j].port = recs[k].port /\ recs[j].window = recs[k].window)
                 => recs[j].tab < recs[k].tab

\* C18: within one scan no two records share (port, window, tab); window and
\* tab are the 1-based positions of the context among the browser's contexts
\* and of the page among the context's pages, filtered and skipped pages
\* counted, so the tab indices of one window strictly increase.
C18_IndicesArePositions ==
    /\ WellIndexed(all_urls)
    /\ scan_pc = "returned" => WellIndexed(scan_ret.value)

\* a returned result holding two records of one window with a gap between
\* their tab indices, and a record of a second window
C18_Witness ==
    /\ scan_pc = "returned"
    /\ \E j, k \in DOMAIN scan_ret.value :
          /\ j < k
          /\ scan_ret.value[j].port = scan_ret.value[k].port
          /\ scan_ret.value[j].window = scan_ret.value[k].window
          /\ scan_ret.value[k].tab > scan_ret.value[j].tab + 1
    /\ \E k \in DOMAIN scan_ret.value : scan_ret.value[k].tab = 1

(***************************************************************************)
(* The driver is stopped and the scan ends.                                *)
(***************************************************************************)
ScanExited == scan_pc \in {"returned", "raised"}

\* what is left of the scan: the stage, the ports left, whether the current
\* port is still to be probed, the contexts left, the pages left
ScanMeasure ==
    <<CASE scan_pc = "start" -> 3
        [] scan_pc \in {"probe", "ctx", "page"} -> 2
        [] scan_pc = "stop" -> 1
        [] OTHER -> 0,
      NPorts + 1 - port_i,
      IF scan_pc = "probe" THEN 1 ELSE 0,
      IF scan_pc \in {"ctx", "page"} THEN Len(browser.contexts) - ctx_idx ELSE 0,
      CASE scan_pc = "page" -> Len(pages) - page_idx
        [] scan_pc = "ctx" /\ ctx_idx < Len(browser.contexts)
             -> Len(browser.contexts[ctx_idx + 1].pages) + 1
        [] OTHER -> 0>>

\* a and b have the same length; a comes before b in the lexicographic order
LexLess(a, b) ==
    \E k \in DOMAIN a :
        /\ a[k] < b[k]
        /\ \A j \in 1..(k - 1) : a[j] = b[j]

ScanResources ==
    /\ Len(probes) <= NPorts
    /\ probes = SubSeq(ports_to_check, 1, Len(probes))
    /\ playwright = "none" => probes = <<>> /\ stop_calls = 0
    /\ ~ScanExited => stop_calls = 0
    /\ (ScanExited /\ playwright # "none") =>
          /\ stop_calls = 1
          /\ probes = ports_to_check
    /\ \A k \in DOMAIN ScanMeasure : ScanMeasure[k] >= 0

\* C20: once the driver is started, playwright.stop() is called exactly once,
\* and only when the function returns or exits, whatever happened in the
\* loop; connect_over_cdp is called once on each port of ports_to_check in
\* list order, never more than five times; every step of a scan brings it
\* closer to its exit, so the scan ends.
C20_StoppedOnceAndTerminates ==
    /\ []ScanResources
    /\ [][FetchAgain \/ LexLess(ScanMeasure', ScanMeasure)]_svars

\* the summary after the loop raised with records collected: the scan
\* returned [] and the driver was stopped once
C20_Witness ==
    /\ scan_pc = "returned"
    /\ all_urls # <<>>
    /\ scan_ret.value = <<>>
    /\ stop_calls = 1
    /\ playwright = "stopped"

(***************************************************************************)
(* A page that cannot be read.                                             *)
(***************************************************************************)
\* the contexts of browser b whose pages the scan walks: those before the
\* first one whose enumeration raises
Walked(b) == { w \in DOMAIN b.contexts : \A v \in 1..w : b.contexts[v].ok }

\* the ports on which the read of some page failed in this scan
PortsWithFailedRead ==
    { i \in PortIdx :
        /\ env[i].up
        /\ \E w \in Walked(env[i]) :
              \E t \in DOMAIN env[i].contexts[w].pages :
                  ~env[i].contexts[w].pages[t].readable }

\* C16: when the read of a page failed in a scan that returned its list, the
\* list still holds the records of all other readable, non-filtered pages of
\* the same context, of the later contexts and of the later endpoints, and
\* close() was called on the connection of the endpoint of that page.
C16_FailedReadOmitsOnePage ==
    (scan_pc = "returned" /\ driverFaults = 0) =>
        \A i \in PortsWithFailedRead :
            /\ scan_ret.value = ScanRecords(env, 1)
            /\ handles[i] \in {"closed", "close_failed"}

(***************************************************************************)
(* The telemetry backend is unavailable.                                   *)
(***************************************************************************)
\* C11: while GALILEO_AVAILABLE is false no telemetry method is called and
\* nothing about telemetry is printed to the operator channel in any call of
\* analyze_urls, no logger exists and no session is started; and the flag
\* keeps the value it got when the module was loaded.
C11_UnavailableIsSilentAndPermanent ==
    /\ [](~GALILEO_AVAILABLE =>
            /\ calls = <<>>
            /\ oplog = <<>>
            /\ ~logger
            /\ ~galileo_session_started)
    /\ [][GALILEO_AVAILABLE' = GALILEO_AVAILABLE]_vars

\* a second call of analyze_urls without the backend has run the agent and
\* returned its text
C11_Witness ==
    /\ ~GALILEO_AVAILABLE
    /\ ncalls = 2
    /\ an_pc = "returned"
    /\ agent_runs = 1
    /\ an_ret = [kind |-> "return", value |-> Str("ok")]

(***************************************************************************)
(* The composed task, read back.                                           *)
(***************************************************************************)
\* the first position at or after 1 where pat occurs in t, 0 when it does not
Find(t, pat) ==
    LET hits == { k \in 1..(Len(t) - Len(pat) + 1) :
                    SubSeq(t, k, k + Len(pat) - 1) = pat }
    IN  IF hits = {} THEN 0
        ELSE CHOOSE k \in hits : \A h \in hits : k <= h

\* what follows the first occurrence of pat in t
After(t, pat) == SubSeq(t, Find(t, pat) + Len(pat), Len(t))

RECURSIVE SplitLines(_)
SplitLines(t) ==
    IF Find(t, "\n") = 0 THEN <<t>>
    ELSE <<SubSeq(t, 1, Find(t, "\n") - 1)>> \o SplitLines(After(t, "\n"))

RECURSIVE LStrip(_)
LStrip(t) ==
    IF t # "" /\ SubSeq(t, 1, 1) = " " THEN LStrip(SubSeq(t, 2, Len(t))) ELSE t

Digits == {"0", "1", "2", "3", "4", "5", "6", "7", "8", "9"}

\* a line that opens with a number and a full stop
IsNumbered(l) ==
    LET s == LStrip(l)
    IN  Len(s) >= 2 /\ SubSeq(s, 1, 1) \in Digits /\ SubSeq(s, 2, 2) = "."

NumberedLine(i, tab) == ToString(i) \o ". " \o tab.title \o " - " \o tab.url

\* the task has been composed for the arguments of the running call
Composed ==
    /\ an_pc \in {"trace", "agent", "log", "ret", "returned", "raised"}
    /\ tabs # <<>>

\* the lines of the task that are numbered are the N lines of the tabs, in
\* the order of the tabs, numbered from 1, one after the other
NumberedLinesOfTabs ==
    LET ls == SplitLines(task)
        first == CHOOSE k \in DOMAIN ls : IsNumbered(ls[k]) /\
                     \A j \in 1..(k - 1) : ~IsNumbered(ls[j])
    IN  /\ Cardinality({ k \in DOMAIN ls : IsNumbered(ls[k]) }) = Len(tabs)
        /\ \A i \in 1..Len(tabs) :
              LStrip(ls[first + i - 1]) = NumberedLine(i, tabs[i])

LastLine == NumberedLine(Len(tabs), tabs[Len(tabs)])

CountSentence ==
    "I have " \o ToString(Len(tabs)) \o " browser tabs saved. Here's the list:"

Held == IF ss_tabs.has THEN ss_tabs.value ELSE <<>>

\* C12: after every scan started by Fetch Tabs that returned, the inventory
\* held in the session is the list that scan returned, the empty list
\* included.
C12_InventoryIsLastScan ==
    (scan_pc = "idle" /\ scan_ret.kind = "return") => Held = scan_ret.value

\* the export is offered and its analysis is the text "ok" of the agent
ExportOfAgentText == ExportOffered /\ export_data.analysis = "ok"

\* C13: whenever the JSON export is offered, its "task" is the instruction
\* that was passed to the call of analyze_urls whose text is its "analysis".
\* Stated for the exports of an agent's text.
C13_ExportTaskIsInstructionUsed ==
    ExportOfAgentText => export_data.task = made_with.task

\* C19: whenever an analysis is shown or exported, it was made from the
\* inventory now held: "tabs" and "total_tabs" of the export are the tabs
\* that were passed to the call of analyze_urls whose text is its "analysis".
\* Stated for the exports of an agent's text.
C19_ExportTabsAreTabsAnalysed ==
    ExportOfAgentText =>
        /\ export_data.tabs = made_with.tabs
        /\ export_data.total_tabs = Len(made_with.tabs)

(***************************************************************************)
(* What main refuses to analyse.                                           *)
(***************************************************************************)
\* the step is a press of Analyze Tabs that line 337 rejected
RejectedPress == ui' = "enter_task"

\* C14: main calls analyze_urls only with a non-empty inventory and with an
\* instruction that is not blank after strip(); without an inventory no call
\* of main exists; a press with a blank instruction starts no call, runs no
\* agent and no telemetry method, and leaves the held inventory and the held
\* analysis as they were.
C14_MainRejectsBlankAndEmpty ==
    /\ [](caller = "main" => tabs # <<>> /\ Strip(custom_task) # "")
    /\ [](~(ss_tabs.has /\ ss_tabs.value # <<>>) => caller # "main")
    /\ [][RejectedPress =>
            /\ UNCHANGED <<ss_tabs, ss_analysis, ncalls>>
            /\ an_pc' = "idle"
            /\ caller' = "none"
            /\ agent_runs' = 0
            /\ calls' = <<>>]_vars

\* a whitespace-only instruction was rejected while an analysis was held
C14_Witness ==
    /\ ui = "enter_task"
    /\ widget_task = " \n"
    /\ ss_analysis.has
    /\ an_pc = "idle"
    /\ agent_runs = 0

====
